---- MODULE Spec2Model ----
(***************************************************************************)
(* Markdown -> APA PDF converters of knowledge/.                           *)
(*                                                                         *)
(*   convert_to_apa_pdf.py         HTML/CSS variant  (variant = "html")    *)
(*   convert_to_apa_pdf_simple.py  direct layout     (variant = "direct")  *)
(*                                                                         *)
(* A text is a sequence of characters; a character is a one-character      *)
(* string, or "U+XXXX" for a code point outside ASCII.  A document is a    *)
(* sequence of lines (the result of content.split('\n')).                  *)
(***************************************************************************)
EXTENDS Naturals, Sequences, FiniteSets

VARIABLES
    variant,        \* which script runs: "html" or "direct"
    doc,            \* the input file, as lines
    pc,             \* "start", "body", "refs", "done", "failed"
    lines,          \* content.split('\n') (after clean_text in the direct variant)
    metadata,       \* title, author, student_id, course, date
    i,              \* index of the next line of the body loop (1-based)
    skip_header,
    in_code_block,
    code_buffer,    \* <<[text, src]>>: src is the index of the source line
    in_table,
    table_data,     \* <<[text, src]>>
    processed_lines,\* html variant: the rewritten lines
    out,            \* what reached the canvas / the rendered document, in order
    faults,         \* drawing calls that have raised so far
    pdf_written     \* pdf.output / write_pdf has run

vars == <<variant, doc, pc, lines, metadata, i, skip_header, in_code_block,
          code_buffer, in_table, table_data, processed_lines, out, faults,
          pdf_written>>

----------------------------------------------------------------------------
(* Python str operations on character sequences *)

Min(a, b) == IF a <= b THEN a ELSE b

\* c * n
Rep(c, n) == [k \in 1..n |-> c]

\* s[a:b] with 0-based, end-exclusive Python indices 0 <= a
Slice(s, a, b) == SubSeq(s, a + 1, Min(b, Len(s)))

MatchAt(s, p, k) ==
    /\ k + Len(p) - 1 <= Len(s)
    /\ \A j \in 1..Len(p) : s[k + j - 1] = p[j]

\* first position >= from where p occurs in s, 0 when there is none
Find(s, p, from) ==
    LET R == from..(Len(s) - Len(p) + 1)
    IN  IF \E k \in R : MatchAt(s, p, k)
        THEN CHOOSE k \in R : MatchAt(s, p, k) /\ \A m \in from..(k - 1) : ~MatchAt(s, p, m)
        ELSE 0

\* p in s
Contains(s, p) == Find(s, p, 1) # 0

\* s.startswith(p)
StartsWith(s, p) == MatchAt(s, p, 1)

RECURSIVE SplitFrom(_, _, _)
SplitFrom(s, sep, from) ==
    LET k == Find(s, sep, from)
    IN  IF k = 0 THEN <<SubSeq(s, from, Len(s))>>
        ELSE <<SubSeq(s, from, k - 1)>> \o SplitFrom(s, sep, k + Len(sep))

\* s.split(sep), sep not empty
Split(s, sep) == SplitFrom(s, sep, 1)

RECURSIVE Join(_, _)
\* sep.join(parts)
Join(parts, sep) ==
    IF Len(parts) = 0 THEN <<>>
    ELSE IF Len(parts) = 1 THEN parts[1]
    ELSE parts[1] \o sep \o Join(Tail(parts), sep)

\* s.replace(old, new): every non-overlapping occurrence, left to right
Replace(s, old, new) == Join(Split(s, old), new)

Whitespace == {" ", "\t", "\r"}

\* s.strip()
Strip(s) ==
    LET n == Len(s)
    IN  IF \A k \in 1..n : s[k] \in Whitespace THEN <<>>
        ELSE SubSeq(s,
                 CHOOSE k \in 1..n :
                     s[k] \notin Whitespace /\ \A m \in 1..(k - 1) : s[m] \in Whitespace,
                 CHOOSE k \in 1..n :
                     s[k] \notin Whitespace /\ \A m \in (k + 1)..n : s[m] \in Whitespace)

\* the characters of s that are not in S, in order
Without(s, S) == SelectSeq(s, LAMBDA c : c \notin S)

----------------------------------------------------------------------------
(* Literals of the two scripts *)

\* the pictographs of convert_to_apa_pdf.py:76-88 and of the character class of
\* convert_to_apa_pdf_simple.py:179 (U+1F6E0 U+FE0F is one glyph of two code points)
G_TARGET == "U+1F3AF"
G_BOOKS == "U+1F4DA"
G_SNAKE == "U+1F40D"
G_LENS == "U+1F50D"
G_CHART == "U+1F4CA"
G_TOOLS == "U+1F6E0"
G_VS16 == "U+FE0F"
G_MICROSCOPE == "U+1F52C"
G_CYCLE == "U+1F504"
G_MEMO == "U+1F4DD"
G_LINK == "U+1F517"
G_THOUGHT == "U+1F4AD"
G_CHECK == "U+2705"
G_CROSS == "U+274C"

T_Estudiante == <<"*","*","E","s","t","u","d","i","a","n","t","e",":","*","*">>
T_ClaveUnica == <<"*","*","C","l","a","v","e"," ","U","n","i","c","a",":","*","*">>
T_ClaveUnicaAccent ==
    <<"*","*","C","l","a","v","e"," ","U+00DA","n","i","c","a",":","*","*">>
T_Materia == <<"*","*","M","a","t","e","r","i","a",":","*","*">>
T_Fecha == <<"*","*","F","e","c","h","a",":","*","*">>
T_Title == <<"#"," ">>
T_H2 == <<"#","#"," ">>
T_H3 == <<"#","#","#"," ">>
T_H4 == <<"#","#","#","#"," ">>
\* U+0060 is the backtick
T_Fence == <<"U+0060","U+0060","U+0060">>
T_Rule == <<"-","-","-">>
T_Pipe == <<"|">>
T_Bold == <<"*","*">>
T_Indent == <<" "," "," "," ">>
T_Si == <<"[","S","U+00ED","]">>
T_No == <<"[","N","o","]">>
T_Objetivo == <<"#","#"," ","O","b","j","e","t","i","v","o">>
T_ObjetivoTarget == <<"#","#"," ",G_TARGET," ","O","b","j","e","t","i","v","o">>

----------------------------------------------------------------------------
(* convert_to_apa_pdf_simple.py: clean_text *)

\* the replacements table, one character at a time (no replacement text contains
\* a key of the table, so the order of the replacements does not matter)
clean_char(c) ==
    CASE c = "U+03A3" -> <<"S","i","g","m","a">>
      [] c = "U+03B1" -> <<"a","l","p","h","a">>
      [] c = "U+03B2" -> <<"b","e","t","a">>
      [] c = "U+03B3" -> <<"g","a","m","m","a">>
      [] c = "U+0394" -> <<"D","e","l","t","a">>
      [] c = "U+2208" -> <<"e","n">>
      [] c = "U+222A" -> <<"U">>
      [] c = "U+2192" -> <<"-",">">>
      [] c = "U+2264" -> <<"<","=">>
      [] c = "U+2265" -> <<">","=">>
      [] c = "U+221E" -> <<"i","n","f","i","n","i","t","o">>
      [] c = "U+221A" -> <<"r","a","i","z">>
      [] c = "U+00D7" -> <<"x">>
      [] c = "U+00F7" -> <<"/">>
      [] c = "U+2260" -> <<"!","=">>
      [] c = "U+2248" -> <<"~">>
      [] c = "U+00E1" -> <<"a">>
      [] c = "U+00E9" -> <<"e">>
      [] c = "U+00ED" -> <<"i">>
      [] c = "U+00F3" -> <<"o">>
      [] c = "U+00FA" -> <<"u">>
      [] c = "U+00F1" -> <<"n">>
      [] c = "U+00C1" -> <<"A">>
      [] c = "U+00C9" -> <<"E">>
      [] c = "U+00CD" -> <<"I">>
      [] c = "U+00D3" -> <<"O">>
      [] c = "U+00DA" -> <<"U">>
      [] c = "U+00D1" -> <<"N">>
      [] OTHER -> <<c>>

RECURSIVE clean_text(_)
\* (the text is halved so that long lines do not nest deeply)
clean_text(text) ==
    IF Len(text) = 0 THEN <<>>
    ELSE IF Len(text) = 1 THEN clean_char(text[1])
    ELSE LET h == Len(text) \div 2
         IN  clean_text(SubSeq(text, 1, h)) \o clean_text(SubSeq(text, h + 1, Len(text)))

----------------------------------------------------------------------------
(* Metadata extraction, both scripts *)

EmptyMetadata ==
    [title |-> <<>>, author |-> <<>>, student_id |-> <<>>, course |-> <<>>,
     date |-> <<>>]

\* one iteration of the if/elif chain; clave is the student-id label of the script
extract_line(m, line, clave) ==
    IF StartsWith(line, T_Title)
        THEN [m EXCEPT !.title = Strip(Replace(line, T_Title, <<>>))]
    ELSE IF Contains(line, T_Estudiante)
        THEN [m EXCEPT !.author = Strip(Split(line, T_Estudiante)[2])]
    ELSE IF Contains(line, clave)
        THEN [m EXCEPT !.student_id = Strip(Split(line, clave)[2])]
    ELSE IF Contains(line, T_Materia)
        THEN [m EXCEPT !.course = Strip(Split(line, T_Materia)[2])]
    ELSE IF Contains(line, T_Fecha)
        THEN [m EXCEPT !.date = Strip(Split(line, T_Fecha)[2])]
    ELSE m

RECURSIVE extract_all(_, _, _, _)
\* the for loop over ls[k..], in order
extract_all(m, ls, k, clave) ==
    IF k > Len(ls) THEN m
    ELSE extract_all(extract_line(m, ls[k], clave), ls, k + 1, clave)

\* for line in lines[:10]
MetaScanLines == 10

\* process_document, given the lines of the cleaned content
process_document(ls) ==
    extract_all(EmptyMetadata, SubSeq(ls, 1, Min(MetaScanLines, Len(ls))), 1,
                T_ClaveUnica)

\* the metadata loop of process_markdown_for_apa: every line of the document
html_metadata(ls) == extract_all(EmptyMetadata, ls, 1, T_ClaveUnicaAccent)

----------------------------------------------------------------------------
(* Glyphs and headings *)

\* the character class of re.sub(r'[...]', '', line): each code point alone
EmojiClass ==
    {G_TARGET, G_BOOKS, G_SNAKE, G_LENS, G_CHART, G_TOOLS, G_VS16, G_MICROSCOPE,
     G_CYCLE, G_MEMO, G_LINK, G_THOUGHT, G_CHECK, G_CROSS}

\* direct variant: line = re.sub(r'[...]', '', line)
strip_emojis(line) == Without(line, EmojiClass)

\* html variant: the thirteen line.replace calls, in order
replace_emojis(line) ==
    LET a == Replace(line, <<G_TARGET>>, <<>>)
        b == Replace(a, <<G_BOOKS>>, <<>>)
        c == Replace(b, <<G_SNAKE>>, <<>>)
        d == Replace(c, <<G_LENS>>, <<>>)
        e == Replace(d, <<G_CHART>>, <<>>)
        f == Replace(e, <<G_TOOLS, G_VS16>>, <<>>)
        g == Replace(f, <<G_MICROSCOPE>>, <<>>)
        h == Replace(g, <<G_CYCLE>>, <<>>)
        j == Replace(h, <<G_MEMO>>, <<>>)
        k == Replace(j, <<G_LINK>>, <<>>)
        l == Replace(k, <<G_THOUGHT>>, <<>>)
        m == Replace(l, <<G_CHECK>>, T_Si)
    IN  Replace(m, <<G_CROSS>>, T_No)

\* remap_heading with the '### ' branch cutting one character too few
remap_heading_slip(line) ==
    IF StartsWith(line, T_H2) THEN <<"#", " ">> \o Slice(line, 3, Len(line))
    ELSE IF StartsWith(line, T_H3) THEN <<"#", "#", " ">> \o Slice(line, 3, Len(line))
    ELSE IF StartsWith(line, T_H4)
        THEN <<"#", "#", "#", " ">> \o Slice(line, 5, Len(line))
    ELSE line

\* html variant: "Ajustar encabezados para APA"
remap_heading(line) ==
    IF StartsWith(line, T_H2) THEN <<"#", " ">> \o Slice(line, 3, Len(line))
    ELSE IF StartsWith(line, T_H3) THEN <<"#", "#", " ">> \o Slice(line, 4, Len(line))
    ELSE IF StartsWith(line, T_H4)
        THEN <<"#", "#", "#", " ">> \o Slice(line, 5, Len(line))
    ELSE line

\* the marker tests that end the skipping of the header
html_marker(line) == StartsWith(line, T_ObjetivoTarget)
direct_marker(line) == Contains(line, T_ObjetivoTarget) \/ Contains(line, T_Objetivo)

----------------------------------------------------------------------------
(* convert_to_apa_pdf_simple.py: what one iteration of the body loop draws.    *)
(* A draw is [kind, text, src, guard]: src is the index of the source line,    *)
(* guard the try statement around the call ("each": a try of its own, "para":  *)
(* the try around the whole paragraph, "none": no try).                        *)

CodeLineLimit == 70      \* code_line[:70]
TableRowLimit == 5       \* table_data[:5]
TableCellLimit == 3      \* cells[:3]
CellTextLimit == 20      \* cell[:20]
ChunkThreshold == 200    \* len(text) > 200
ChunkSize == 180         \* text[i:i+180]

Draw(kind, text, src, guard) ==
    [kind |-> kind, text |-> text, src |-> src, guard |-> guard]

RECURSIVE Flatten(_)
Flatten(ss) == IF Len(ss) = 0 THEN <<>> ELSE ss[1] \o Flatten(Tail(ss))

\* closing fence: for code_line in code_buffer, each multi_cell in its own try
code_draws(buffer) ==
    [k \in 1..Len(buffer) |->
        Draw("code", Slice(buffer[k].text, 0, CodeLineLimit), buffer[k].src, "each")]

\* one buffered row: the cells of row.split("|")[1:-1], stripped, then pdf.ln()
row_draws(row) ==
    LET parts == Split(row.text, T_Pipe)
        inner == SubSeq(parts, 2, Len(parts) - 1)
        cells == SubSeq(inner, 1, Min(TableCellLimit, Len(inner)))
    IN  [k \in 1..Len(cells) |->
            Draw("cell", Slice(Strip(cells[k]), 0, CellTextLimit), row.src, "none")]
        \o <<Draw("ln", <<>>, row.src, "none")>>

\* "Procesar tabla acumulada"
table_draws(data) ==
    LET rows == SubSeq(data, 1, Min(TableRowLimit, Len(data)))
    IN  Flatten([k \in 1..Len(rows) |-> row_draws(rows[k])])

\* "Convertir **texto** a negrita (simplificado)"
span_draws(text, src) ==
    LET parts == Split(text, T_Bold)
        all == [j \in 1..Len(parts) |->
                   Draw(IF (j - 1) % 2 = 0 THEN "plain" ELSE "bold", parts[j], src, "none")]
    IN  SelectSeq(all, LAMBDA d : d.text # <<>>)

\* plain_draws with chunks one character short: text[i:i+179] every 180
plain_draws_short(line, src) ==
    LET text == IF ~StartsWith(line, <<"-">>) /\ ~StartsWith(line, <<"*">>)
                   /\ ~StartsWith(line, <<">">>)
                THEN T_Indent \o line ELSE line
        n == (Len(text) + ChunkSize - 1) \div ChunkSize
        chunks == [k \in 1..n |->
                      Draw("para", Slice(text, (k - 1) * ChunkSize, k * ChunkSize - 1),
                           src, "para")]
    IN  IF Len(text) > ChunkThreshold
        THEN SelectSeq(chunks, LAMBDA d : Strip(d.text) # <<>>)
        ELSE <<Draw("para", text, src, "para")>>

\* "Texto normal con sangria", inside the try statement
plain_draws(line, src) ==
    LET text == IF ~StartsWith(line, <<"-">>) /\ ~StartsWith(line, <<"*">>)
                   /\ ~StartsWith(line, <<">">>)
                THEN T_Indent \o line ELSE line
        n == (Len(text) + ChunkSize - 1) \div ChunkSize
        chunks == [k \in 1..n |->
                      Draw("para", Slice(text, (k - 1) * ChunkSize, k * ChunkSize), src, "para")]
    IN  IF Len(text) > ChunkThreshold
        THEN SelectSeq(chunks, LAMBDA d : Strip(d.text) # <<>>)
        ELSE <<Draw("para", text, src, "para")>>

\* "Procesar encabezados" and the paragraph branch
block_draws(line, src) ==
    IF StartsWith(line, T_H2)
        THEN <<Draw("h1", Strip(Slice(line, 3, Len(line))), src, "none")>>
    ELSE IF StartsWith(line, T_H3)
        THEN <<Draw("h2", Strip(Slice(line, 4, Len(line))), src, "none")>>
    ELSE IF StartsWith(line, T_H4)
        THEN <<Draw("h3", T_Indent \o Strip(Slice(line, 5, Len(line))), src, "none")>>
    ELSE IF StartsWith(line, T_Rule) THEN <<>>
    ELSE IF Strip(line) # <<>>
        THEN IF Contains(line, T_Bold) THEN span_draws(line, src)
             ELSE plain_draws(line, src)
    ELSE <<>>

\* "REFERENCIAS (seccion final)": the heading and the five entries
Referencias ==
    <<"Chomsky, N. (1959)", "Hopcroft, J. E., & Ullman, J. D. (1979)",
      "Python Software Foundation. (2024)", "Sipser, M. (2013)",
      "Van Rossum, G., & Drake, F. L. (2021)">>

reference_draws ==
    <<Draw("heading_ref", <<"Referencias">>, 0, "none")>>
    \o [k \in 1..Len(Referencias) |-> Draw("ref", <<Referencias[k]>>, 0, "none")]

(* The canvas may raise in any drawing call.  k = 0: no call of the iteration  *)
(* raises; k > 0: the k-th call raises.                                        *)

\* what has been drawn when the iteration ends
drawn(draws, k) ==
    IF k = 0 THEN draws
    ELSE IF draws[k].guard = "each"
        THEN SubSeq(draws, 1, k - 1) \o SubSeq(draws, k + 1, Len(draws))
    ELSE SubSeq(draws, 1, k - 1)

\* the exception leaves create_apa_pdf
aborts(draws, k) == k # 0 /\ draws[k].guard = "none"

Emit(draws) == [k \in 1..Len(draws) |->
                   [kind |-> draws[k].kind, text |-> draws[k].text, src |-> draws[k].src]]

----------------------------------------------------------------------------
(* Input documents *)

L_Title1 == <<"#"," ","T">>
L_Title2 == <<"#"," ","U">>
L_Est1 == T_Estudiante \o <<" ","A">>
L_Est2 == T_Estudiante \o <<" ","B">>
L_Clave == T_ClaveUnicaAccent \o <<" ","1">>
L_Clave2 == T_ClaveUnicaAccent \o <<" ","2">>
L_Fecha == T_Fecha \o <<" ","F">>
L_Para == <<"p">>
L_Item == <<"-"," ","i">>
L_Glyphs == <<"y",G_CHECK,"n",G_CROSS,G_BOOKS>>
L_Fence == T_Fence
L_CodeGlyph == <<"x",G_CHECK>>
L_CodeComment == <<"#","#"," ","c">>
L_CodeTitle == <<"#"," ","c">>
L_CodeLong == Rep("c", CodeLineLimit + 1)
L_Header == <<"|"," ","A"," ","|"," ","B"," ","|">>
L_Sep == <<"|","-","-","-","|","-","-","-","|">>
L_Row(c) == <<"|"," ",c," ","|"," ","b"," ","|">>
L_RowWide == <<"|","1","|","2","|","3","|","4","|">>
L_H2 == <<"#","#"," ","g">>
L_H3 == <<"#","#","#"," ","h">>
L_H4 == <<"#","#","#","#"," ","k">>
L_H5 == <<"#","#","#","#","#"," ","m">>
L_HGlyph == <<"#","#",G_TARGET,"#"," ","z">>
L_HSpace == <<" ","#","#"," ","y">>
L_Bold == <<"a"," ","*","*","b","*","*"," ","c">>
L_Unmatched == <<"a"," ","*","*","b">>
L_Rule == T_Rule
\* indented: 4 + 201 characters, two chunks
L_Long == Rep("x", ChunkThreshold + 1)
\* indented: 4 + 176 | 180 blanks | 1, the second chunk is whitespace alone
L_LongBlank == Rep("x", ChunkSize - 4) \o Rep(" ", ChunkSize) \o <<"y">>
\* indented: 4 + 100 | 90 blanks | 20, no chunk is whitespace alone
L_LongGap == Rep("x", 100) \o Rep(" ", 90) \o Rep("z", 20)
\* indented: exactly ChunkThreshold characters, not chunked
L_AtThreshold == Rep("w", ChunkThreshold - 4)
\* not indented, 2 + 2 * 180 characters
L_LongItem == <<"-"," ">> \o Rep("v", 2 * ChunkSize)

\* the sequences over S of length 0..n
RECURSIVE SeqsUpTo(_, _)
SeqsUpTo(S, n) ==
    IF n = 0 THEN {<<>>}
    ELSE LET R == SeqsUpTo(S, n - 1)
         IN  R \cup {<<x>> \o r : x \in S, r \in {q \in R : Len(q) = n - 1}}


MaxSegs == 2        \* segments of a body
MaxParas == 2       \* paragraph lines of a body (SpecChunk)
MaxHeadings == 3    \* lines of a body (SpecHtml)
MaxFaults == 1      \* drawing calls that raise in one run
MaxSkipLines == 3   \* lines of a document (SpecSkip)

Segments ==
    { <<L_Para>>, <<L_Glyphs>>, <<L_H3>>, <<L_Bold>>, <<L_Unmatched>>, <<L_Rule>>,
      <<L_Long>>, <<L_LongBlank>>,
      <<L_Fence, L_CodeGlyph, L_CodeComment, L_Fence>>,
      <<L_Fence, L_CodeLong, L_CodeTitle, L_Fence>>,
      <<L_Fence, L_CodeGlyph>>,
      <<L_Header, L_Sep, L_Row("1"), L_RowWide>>,
      <<L_Header, L_Sep, L_Row("1"), L_Row("2"), L_Row("3"), L_Row("4"), L_Row("5"),
        L_Row("6")>>,
      <<L_Header, L_Sep, L_Row("1"), L_Fence, L_Item, L_Fence>> }

Fronts ==
    { <<>>, <<L_Title1>>, <<L_Title1, L_Title2>>, <<L_Title1, L_Est1, L_Est2>>,
      <<L_Title1, L_Est1, L_Clave, L_Fecha>>, <<L_Title1, L_Est1, L_Clave, L_Clave2>> }

Markers == {T_ObjetivoTarget, T_Objetivo}

Docs ==
    {f \o <<m, L_Para>> : f \in Fronts, m \in Markers}
    \cup {<<L_Title1, L_Est1, T_ObjetivoTarget>> \o Flatten(b) :
             b \in SeqsUpTo(Segments, MaxSegs)}

ChunkLines ==
    {L_Item, L_Long, L_LongBlank, L_LongGap, L_AtThreshold, L_LongItem}

ChunkDocs ==
    {<<L_Title1, T_ObjetivoTarget>> \o b : b \in SeqsUpTo(ChunkLines, MaxParas)}

HeadingLines ==
    {L_H2, L_H3, L_H4, L_H5, L_HGlyph, L_HSpace, L_Para, L_Title2}

HtmlDocs ==
    {<<L_Title1, T_ObjetivoTarget>> \o b : b \in SeqsUpTo(HeadingLines, MaxHeadings)}

\* a list item that mentions the marker text: "- ## Objetivo"
L_Mention == <<"-", " ">> \o T_Objetivo

\* documents with the marker anywhere, more than once, or not at all
SkipLines == {L_Title1, L_Para, L_H3, L_Mention, T_Objetivo, T_ObjetivoTarget}

SkipDocs == SeqsUpTo(SkipLines, MaxSkipLines)

----------------------------------------------------------------------------
(* State machine *)

InitWith(D, V) ==
    /\ variant \in V
    /\ doc \in D
    /\ pc = "start"
    /\ lines = <<>>
    /\ metadata = EmptyMetadata
    /\ i = 1
    /\ skip_header = TRUE
    /\ in_code_block = FALSE
    /\ code_buffer = <<>>
    /\ in_table = FALSE
    /\ table_data = <<>>
    /\ processed_lines = <<>>
    /\ out = <<>>
    /\ faults = 0
    /\ pdf_written = FALSE

Init == InitWith(Docs, {"html", "direct"})

Item(kind, text, src) == [kind |-> kind, text |-> text, src |-> src]

\* the k-th call of an iteration may raise while the run has faults left
FaultChoices(draws) ==
    {0} \cup (IF faults < MaxFaults
              THEN {k \in 1..Len(draws) : draws[k].kind # "ln"} ELSE {})

(* ---- convert_to_apa_pdf_simple.py ---- *)

\* create_apa_pdf up to the body loop: process_document, title page, abstract
DirectStart ==
    /\ variant = "direct" /\ pc = "start"
    /\ LET ls == [k \in 1..Len(doc) |-> clean_text(doc[k])]
           m == process_document(ls)
           title_clean == Strip(Replace(Replace(m.title, <<G_TARGET>>, <<>>),
                                        <<G_BOOKS>>, <<>>))
       IN  /\ lines' = ls
           /\ metadata' = m
           /\ out' = <<Item("title_page", title_clean, 0), Item("abstract", <<>>, 0)>>
    /\ pc' = "body"
    /\ UNCHANGED <<variant, doc, i, skip_header, in_code_block, code_buffer, in_table,
                   table_data, processed_lines, faults, pdf_written>>

\* the line of this iteration gets past the skip_header test
DirectActive ==
    /\ variant = "direct" /\ pc = "body" /\ i <= Len(lines)
    /\ (~skip_header \/ direct_marker(lines[i]))

\* the line after "Limpiar emojis"
DirectLine == strip_emojis(lines[i])

IsFence(line) == StartsWith(Strip(line), T_Fence)
IsSeparator(line) == Contains(line, T_Pipe) /\ Contains(line, T_Rule)

\* "Saltar encabezado inicial": continue
DirectSkip ==
    /\ variant = "direct" /\ pc = "body" /\ i <= Len(lines)
    /\ skip_header /\ ~direct_marker(lines[i])
    /\ i' = i + 1
    /\ UNCHANGED <<variant, doc, pc, lines, metadata, skip_header, in_code_block,
                   code_buffer, in_table, table_data, processed_lines, out, faults,
                   pdf_written>>

\* "Detectar bloques de codigo": a fence line opens or closes the block
DirectFence ==
    /\ DirectActive /\ IsFence(DirectLine)
    /\ IF in_code_block
       THEN \E k \in FaultChoices(code_draws(code_buffer)) :
               /\ out' = out \o Emit(drawn(code_draws(code_buffer), k))
               /\ faults' = IF k = 0 THEN faults ELSE faults + 1
               /\ code_buffer' = <<>>
               /\ in_code_block' = FALSE
       ELSE /\ in_code_block' = TRUE
            /\ UNCHANGED <<out, faults, code_buffer>>
    /\ skip_header' = FALSE
    /\ i' = i + 1
    /\ UNCHANGED <<variant, doc, pc, lines, metadata, in_table, table_data,
                   processed_lines, pdf_written>>

\* inside a code block: code_buffer.append(line)
DirectCode ==
    /\ DirectActive /\ ~IsFence(DirectLine) /\ in_code_block
    /\ code_buffer' = Append(code_buffer, [text |-> DirectLine, src |-> i])
    /\ skip_header' = FALSE
    /\ i' = i + 1
    /\ UNCHANGED <<variant, doc, pc, lines, metadata, in_code_block, in_table,
                   table_data, processed_lines, out, faults, pdf_written>>

\* "Detectar tablas": a line with "|" and "---"
DirectSeparator ==
    /\ DirectActive /\ ~IsFence(DirectLine) /\ ~in_code_block
    /\ IsSeparator(DirectLine)
    /\ in_table' = TRUE
    /\ skip_header' = FALSE
    /\ i' = i + 1
    /\ UNCHANGED <<variant, doc, pc, lines, metadata, in_code_block, code_buffer,
                   table_data, processed_lines, out, faults, pdf_written>>

\* in a table: table_data.append(line)
DirectRow ==
    /\ DirectActive /\ ~IsFence(DirectLine) /\ ~in_code_block
    /\ ~IsSeparator(DirectLine)
    /\ in_table /\ Contains(DirectLine, T_Pipe)
    /\ table_data' = Append(table_data, [text |-> DirectLine, src |-> i])
    /\ skip_header' = FALSE
    /\ i' = i + 1
    /\ UNCHANGED <<variant, doc, pc, lines, metadata, in_code_block, code_buffer,
                   in_table, processed_lines, out, faults, pdf_written>>

\* any other line: the table gathered so far is drawn, then the line itself
DirectBlock ==
    /\ DirectActive /\ ~IsFence(DirectLine) /\ ~in_code_block
    /\ ~IsSeparator(DirectLine)
    /\ ~(in_table /\ Contains(DirectLine, T_Pipe))
    /\ LET draws == (IF in_table THEN table_draws(table_data) ELSE <<>>)
                    \o block_draws(DirectLine, i)
       IN  \E k \in FaultChoices(draws) :
               /\ out' = out \o Emit(drawn(draws, k))
               /\ faults' = IF k = 0 THEN faults ELSE faults + 1
               /\ pc' = IF aborts(draws, k) THEN "failed" ELSE pc
    /\ table_data' = IF in_table THEN <<>> ELSE table_data
    /\ in_table' = FALSE
    /\ skip_header' = FALSE
    /\ i' = i + 1
    /\ UNCHANGED <<variant, doc, lines, metadata, in_code_block, code_buffer,
                   processed_lines, pdf_written>>

\* after the loop: the reference list, then pdf.output
DirectFinish ==
    /\ variant = "direct" /\ pc = "body" /\ i > Len(lines)
    /\ out' = out \o Emit(reference_draws)
    /\ pdf_written' = TRUE
    /\ pc' = "done"
    /\ UNCHANGED <<variant, doc, lines, metadata, i, skip_header, in_code_block,
                   code_buffer, in_table, table_data, processed_lines, faults>>

(* ---- convert_to_apa_pdf.py ---- *)

\* process_markdown_for_apa up to the body loop: the metadata loop
HtmlStart ==
    /\ variant = "html" /\ pc = "start"
    /\ lines' = doc
    /\ metadata' = html_metadata(doc)
    /\ pc' = "body"
    /\ UNCHANGED <<variant, doc, i, skip_header, in_code_block, code_buffer, in_table,
                   table_data, processed_lines, out, faults, pdf_written>>

HtmlSkip ==
    /\ variant = "html" /\ pc = "body" /\ i <= Len(lines)
    /\ skip_header /\ ~html_marker(lines[i])
    /\ i' = i + 1
    /\ UNCHANGED <<variant, doc, pc, lines, metadata, skip_header, in_code_block,
                   code_buffer, in_table, table_data, processed_lines, out, faults,
                   pdf_written>>

\* glyphs, headings, processed_lines.append(line)
HtmlLine ==
    /\ variant = "html" /\ pc = "body" /\ i <= Len(lines)
    /\ (~skip_header \/ html_marker(lines[i]))
    /\ processed_lines' =
           Append(processed_lines,
                  [text |-> remap_heading(replace_emojis(lines[i])), src |-> i])
    /\ skip_header' = FALSE
    /\ i' = i + 1
    /\ UNCHANGED <<variant, doc, pc, lines, metadata, in_code_block, code_buffer,
                   in_table, table_data, out, faults, pdf_written>>

\* return apa_content + "\n".join(processed_lines); convert_to_pdf renders it
HtmlFinish ==
    /\ variant = "html" /\ pc = "body" /\ i > Len(lines)
    /\ out' = <<Item("title_page", metadata.title, 0), Item("abstract", <<>>, 0)>>
              \o [k \in 1..Len(processed_lines) |->
                     Item("md", processed_lines[k].text, processed_lines[k].src)]
    /\ pdf_written' = TRUE
    /\ pc' = "done"
    /\ UNCHANGED <<variant, doc, lines, metadata, i, skip_header, in_code_block,
                   code_buffer, in_table, table_data, processed_lines, faults>>

NextDirect ==
    \/ DirectStart \/ DirectSkip \/ DirectFence \/ DirectCode \/ DirectSeparator
    \/ DirectRow \/ DirectBlock \/ DirectFinish

NextHtml == HtmlStart \/ HtmlSkip \/ HtmlLine \/ HtmlFinish

Next == NextDirect \/ NextHtml

Spec == Init /\ [][Next]_vars

\* the html script on heading documents
InitHtml == InitWith(HtmlDocs, {"html"})
SpecHtml == InitHtml /\ [][NextHtml]_vars

\* the direct script on documents of paragraphs
InitChunk == InitWith(ChunkDocs, {"direct"})
NextChunk == DirectStart \/ DirectSkip \/ DirectBlock \/ DirectFinish
SpecChunk == InitChunk /\ [][NextChunk]_vars

\* both scripts on documents of headings, paragraphs and marker lines
InitSkip == InitWith(SkipDocs, {"html", "direct"})
NextSkip == DirectStart \/ DirectSkip \/ DirectBlock \/ DirectFinish \/ NextHtml
SpecSkip == InitSkip /\ [][NextSkip]_vars

----------------------------------------------------------------------------
(* Properties *)

\* the items of out that come from source line s, in the order drawn
OutOf(s) == SelectSeq(out, LAMBDA d : d.src = s)

\* the first line of the body loop that is not skipped (0: none)
IsMarker(k) ==
    IF variant = "html" THEN html_marker(lines[k]) ELSE direct_marker(lines[k])

FirstEmitted ==
    IF \E k \in 1..Len(lines) : IsMarker(k)
    THEN CHOOSE k \in 1..Len(lines) : IsMarker(k) /\ \A m \in 1..(k - 1) : ~IsMarker(m)
    ELSE 0

\* the lines the body loop works on
BodyLines == IF FirstEmitted = 0 THEN {} ELSE FirstEmitted..Len(lines)

(* ---- C1 ---- *)

\* the lines the metadata loop scans
Scanned ==
    IF variant = "html" THEN lines
    ELSE SubSeq(lines, 1, Min(MetaScanLines, Len(lines)))

ClaveLabel == IF variant = "html" THEN T_ClaveUnicaAccent ELSE T_ClaveUnica

\* the field a line is the label line of
FieldOf(line) ==
    IF StartsWith(line, T_Title) THEN "title"
    ELSE IF Contains(line, T_Estudiante) THEN "author"
    ELSE IF Contains(line, ClaveLabel) THEN "student_id"
    ELSE IF Contains(line, T_Materia) THEN "course"
    ELSE IF Contains(line, T_Fecha) THEN "date"
    ELSE "none"

LabelOf(f) ==
    CASE f = "author" -> T_Estudiante
      [] f = "student_id" -> ClaveLabel
      [] f = "course" -> T_Materia
      [] f = "date" -> T_Fecha

\* the value a label line gives its field
ValueOf(line, f) ==
    IF f = "title" THEN Strip(Replace(line, T_Title, <<>>))
    ELSE Strip(Split(line, LabelOf(f))[2])

LabelLines(f) == {k \in 1..Len(Scanned) : FieldOf(Scanned[k]) = f}

\* C1: once the metadata has been extracted, every field holds the value of the
\* earliest label line of that field among the scanned lines (first match wins),
\* and is empty when there is none.
C1_FirstMatchWins ==
    pc # "start" =>
        \A f \in {"title", "author", "student_id", "course", "date"} :
            LET K == LabelLines(f)
            IN  metadata[f] = IF K = {} THEN <<>>
                              ELSE ValueOf(Scanned[CHOOSE k \in K : \A m \in K : k <= m], f)

(* ---- C2 ---- *)

FenceLines == {k \in BodyLines : IsFence(lines[k])}

\* source line s follows an opening fence that no fence before s closes
InCodeMode(s) ==
    /\ s \in BodyLines /\ s \notin FenceLines
    /\ Cardinality({k \in FenceLines : k < s}) % 2 = 1

\* source line s lies between an opening fence and its closing fence
InsideFences(s) == InCodeMode(s) /\ \E k \in FenceLines : k > s

\* C2: when the run has ended without a raised drawing call, every source line
\* between a pair of fence lines is in the output character for character: as a code
\* line of the direct variant, as a rewritten line of the html variant.
C2_CodeBlockVerbatim ==
    (pc = "done" /\ faults = 0) =>
        \A s \in 1..Len(lines) :
            InsideFences(s) =>
                \E k \in 1..Len(out) :
                    /\ out[k].src = s
                    /\ out[k].kind \in {"code", "md"}
                    /\ out[k].text = lines[s]

(* ---- C3 ---- *)

\* source line s is a data row: pipe lines lead back from it to a separator row
IsDataRow(s) ==
    /\ s \in BodyLines
    /\ ~InCodeMode(s)
    /\ \E t \in BodyLines :
          /\ t < s
          /\ IsSeparator(strip_emojis(lines[t]))
          /\ \A u \in (t + 1)..s :
                /\ Contains(lines[u], T_Pipe)
                /\ ~IsSeparator(strip_emojis(lines[u]))

\* C3: when the direct variant has ended without a raised drawing call, every data
\* row of every table has been emitted as exactly one table row, and no separator
\* row has been emitted.
C3_TableRows ==
    (variant = "direct" /\ pc = "done" /\ faults = 0) =>
        \A s \in 1..Len(lines) :
            /\ IsDataRow(s) =>
                  Len(SelectSeq(OutOf(s), LAMBDA d : d.kind = "ln")) = 1
            /\ (s \in BodyLines /\ IsSeparator(strip_emojis(lines[s]))
                  /\ ~InCodeMode(s)) => OutOf(s) = <<>>

(* ---- C4 ---- *)

\* the spans of the claim: plain and bold in turn, and with an odd number of
\* delimiters the last delimiter stays in the text of a plain span
ClaimSpans(text) ==
    LET parts == Split(text, T_Bold)
        n == Len(parts)
        paired == IF n % 2 = 1 THEN n ELSE n - 1
        spans == [j \in 1..n |->
                     IF j <= paired
                     THEN [kind |-> IF (j - 1) % 2 = 0 THEN "plain" ELSE "bold",
                           text |-> parts[j]]
                     ELSE [kind |-> "plain", text |-> T_Bold \o parts[j]]]
    IN  SelectSeq(spans, LAMBDA d : d.text # <<>>)

\* source line s has been drawn as a paragraph with inline bold
SpanLine(s) ==
    /\ variant = "direct" /\ pc \in {"body", "done"} /\ faults = 0
    /\ s < i /\ s \in BodyLines
    /\ \E k \in 1..Len(out) : out[k].src = s /\ out[k].kind \in {"plain", "bold"}

\* C4: the spans drawn for a paragraph line with "**" are the spans of the claim:
\* 'a **b** c' gives plain 'a ', bold 'b', plain ' c'; 'a **b' gives plain 'a ',
\* plain '**b'.
C4_UnmatchedBoldLiteral ==
    \A s \in 1..Len(lines) :
        SpanLine(s) =>
            [k \in 1..Len(OutOf(s)) |->
                [kind |-> OutOf(s)[k].kind, text |-> OutOf(s)[k].text]]
            = ClaimSpans(strip_emojis(lines[s]))

(* ---- C5 ---- *)

\* the substitution of the claim: the two markers become words, the other listed
\* glyphs vanish, nothing else changes
ClaimGlyphs(line) ==
    LET a == Replace(line, <<G_TOOLS, G_VS16>>, <<>>)
        b == Replace(Replace(a, <<G_CHECK>>, T_Si), <<G_CROSS>>, T_No)
    IN  Without(b, {G_TARGET, G_BOOKS, G_SNAKE, G_LENS, G_CHART, G_MICROSCOPE, G_CYCLE,
                    G_MEMO, G_LINK, G_THOUGHT})

\* the sangria of a paragraph
Indented(text) ==
    IF text # <<>> /\ text[1] \in {"-", "*", ">"} THEN text ELSE T_Indent \o text

\* the heading shift of the html variant: one '#' less on a heading of level 2..4
ShiftUp(line) ==
    LET H == {h \in 0..Len(line) : \A k \in 1..h : line[k] = "#"}
        hashes == CHOOSE h \in H : \A m \in H : m <= h
    IN  IF hashes \in 2..4 /\ Len(line) > hashes /\ line[hashes + 1] = " "
        THEN Tail(line) ELSE line

\* C5: every body line either script emits carries the substitution of the claim:
\* a rewritten line of the html variant, a paragraph drawn whole by the direct
\* variant.
C5_GlyphSubstitution ==
    /\ \A k \in 1..Len(processed_lines) :
          processed_lines[k].text = ShiftUp(ClaimGlyphs(lines[processed_lines[k].src]))
    /\ \A k \in 1..Len(out) :
          (variant = "direct" /\ out[k].kind = "para" /\ Len(OutOf(out[k].src)) = 1
             /\ Len(out[k].text) <= ChunkThreshold)
          => out[k].text = Indented(ClaimGlyphs(lines[out[k].src]))

(* ---- C6 ---- *)

BodyKinds == {"h1", "h2", "h3", "para", "plain", "bold", "code", "cell"}

\* C6: what the body loop of the direct variant has drawn is in source order: of two
\* drawn items, the one drawn first does not come from a later source line.
C6_OrderPreserving ==
    variant = "direct" =>
        \A j, k \in 1..Len(out) :
            (j < k /\ out[j].kind \in BodyKinds /\ out[k].kind \in BodyKinds)
            => out[j].src <= out[k].src

(* ---- C7 ---- *)

\* C7: when either script has ended, the output ends with the reference list.
C7_ReferenceListLast ==
    pc = "done" =>
        /\ Len(out) >= Len(Referencias)
        /\ \A k \in 1..Len(Referencias) :
              LET d == out[Len(out) - Len(Referencias) + k]
              IN  d.kind = "ref" /\ d.text = <<Referencias[k]>>

(* ---- C8 ---- *)

\* source line s is a paragraph without "**" that the body loop has worked on
ParagraphDone(s) ==
    LET line == strip_emojis(lines[s])
    IN  /\ variant = "direct" /\ pc \in {"body", "done"}
        /\ s < i /\ s \in BodyLines
        /\ ~StartsWith(line, T_H2) /\ ~StartsWith(line, T_H3) /\ ~StartsWith(line, T_H4)
        /\ ~StartsWith(line, T_Rule) /\ Strip(line) # <<>>
        /\ ~Contains(line, T_Bold) /\ ~Contains(line, T_Pipe) /\ ~IsFence(line)
        /\ ~InCodeMode(s)

ParaText(s) == Indented(strip_emojis(lines[s]))

LongParagraphDone(s) == ParagraphDone(s) /\ Len(ParaText(s)) > ChunkThreshold

\* the chunks drawn for source line s, one after the other
DrawnText(s) ==
    LET items == OutOf(s) IN Flatten([k \in 1..Len(items) |-> items[k].text])

RECURSIVE KeepNonBlank(_)
\* text without its slices of ChunkSize characters that are whitespace alone
KeepNonBlank(text) ==
    IF Len(text) = 0 THEN <<>>
    ELSE LET head == SubSeq(text, 1, Min(ChunkSize, Len(text)))
             rest == SubSeq(text, ChunkSize + 1, Len(text))
         IN  (IF \A k \in 1..Len(head) : head[k] \in Whitespace THEN <<>> ELSE head)
             \o KeepNonBlank(rest)

IsPrefix(a, b) == Len(a) <= Len(b) /\ SubSeq(b, 1, Len(a)) = a

\* C8 (as in the claim): with no raised drawing call, the chunks drawn for an
\* overlong paragraph, one after the other, are the indented paragraph text.
C8_ChunksLoseNothing ==
    \A s \in 1..Len(lines) :
        (LongParagraphDone(s) /\ faults = 0) => DrawnText(s) = ParaText(s)

\* C8 (amended): the chunks drawn for an overlong paragraph, one after the other,
\* are the indented paragraph text without its 180-character slices that are
\* whitespace alone: all of it when no drawing call has raised, a prefix of it
\* otherwise; and no chunk is longer than 180 characters.
C8_ChunksKeepNonBlank ==
    \A s \in 1..Len(lines) :
        LongParagraphDone(s) =>
            /\ IsPrefix(DrawnText(s), KeepNonBlank(ParaText(s)))
            /\ faults = 0 => DrawnText(s) = KeepNonBlank(ParaText(s))
            /\ \A k \in 1..Len(OutOf(s)) :
                  OutOf(s)[k].kind = "para" /\ Len(OutOf(s)[k].text) <= ChunkSize

\* an overlong paragraph with a chunk of whitespace alone has been drawn, in two
\* chunks out of three
C8_Witness ==
    \E s \in 1..Len(lines) :
        /\ LongParagraphDone(s) /\ faults = 0
        /\ Len(OutOf(s)) = 2
        /\ DrawnText(s) # ParaText(s)

(* ---- C9 ---- *)

\* C9: every line the html variant emits is the source line after the glyph
\* replacement with its heading level shifted up by one: '## ' to '# ', '### ' to
\* '## ', '#### ' to '### ', any other line unchanged.
C9_HeadingShift ==
    \A k \in 1..Len(processed_lines) :
        processed_lines[k].text = ShiftUp(replace_emojis(lines[processed_lines[k].src]))

\* headings of level 3, 4 and 5 and the marker heading have been emitted
C9_Witness ==
    /\ variant = "html" /\ pc = "done"
    /\ \E a, b, c, d \in 1..Len(processed_lines) :
          /\ lines[processed_lines[a].src] = L_H3
          /\ processed_lines[a].text = <<"#","#"," ","h">>
          /\ lines[processed_lines[b].src] = L_H4
          /\ processed_lines[b].text = <<"#","#","#"," ","k">>
          /\ lines[processed_lines[c].src] = L_H5
          /\ processed_lines[c].text = L_H5
          /\ lines[processed_lines[d].src] = T_ObjetivoTarget
          /\ processed_lines[d].text = <<"#"," "," ","O","b","j","e","t","i","v","o">>

(* ---- C10 ---- *)

\* C10: no raised drawing call ends the run of the direct variant: the run never
\* fails, and it ends with the reference list drawn and the file written.
C10_FailureSwallowed ==
    /\ pc # "failed"
    /\ pc = "done" => pdf_written

(* ---- C11 ---- *)

\* line k is a heading line that starts with a marker text of the running script
MarkerHeading(k) ==
    IF variant = "html" THEN StartsWith(lines[k], T_ObjetivoTarget)
    ELSE StartsWith(lines[k], T_ObjetivoTarget) \/ StartsWith(lines[k], T_Objetivo)

\* the first marker heading line (0: the document has none)
FirstMarkerHeading ==
    IF \E k \in 1..Len(lines) : MarkerHeading(k)
    THEN CHOOSE k \in 1..Len(lines) :
             MarkerHeading(k) /\ \A m \in 1..(k - 1) : ~MarkerHeading(m)
    ELSE 0

\* the marker line has been emitted as a heading and not as it stands in the source
MarkerAsHeading(M) ==
    IF variant = "html"
    THEN LET of == SelectSeq(processed_lines, LAMBDA d : d.src = M)
         IN  /\ Len(of) = 1
             /\ of[1].text # lines[M]
             /\ StartsWith(of[1].text, <<"#", " ">>)
    ELSE /\ Len(OutOf(M)) = 1
         /\ OutOf(M)[1].kind = "h1"
         /\ OutOf(M)[1].text # lines[M]

\* C11: in both variants no line before the first Objetivo marker heading line is
\* emitted into the body, and a document without a marker line has an empty body;
\* skipping ends at the marker line and at no other line, and never resumes; the
\* marker line is emitted as a heading, never as it stands in the source.
C11_SkipLogic ==
    LET M == FirstMarkerHeading
    IN  /\ \A k \in 1..Len(out) :
               out[k].src > 0 => M # 0 /\ out[k].src >= M
        /\ \A k \in 1..Len(processed_lines) :
               M # 0 /\ processed_lines[k].src >= M
        /\ pc \in {"body", "done"} =>
               (skip_header <=> \A k \in 1..Min(i - 1, Len(lines)) : ~MarkerHeading(k))
        /\ (pc \in {"body", "done"} /\ M # 0 /\ i > M) => MarkerAsHeading(M)

(* ---- C12 ---- *)

\* C12: when the line loop of the direct variant ends inside an open code fence and
\* the run ends as a success, every line held in code_buffer has been drawn (the
\* only signal the script can give is a failed run).
C12_UnterminatedFenceSignalled ==
    (variant = "direct" /\ pc = "done" /\ in_code_block) =>
        \A k \in 1..Len(code_buffer) :
            \E j \in 1..Len(out) : out[j].src = code_buffer[k].src

====
